---- MODULE Spec2Model ----
(***************************************************************************)
(* whitelight (src/lib.rs): ANSI text styling.  A Style is a value built   *)
(* by a fluent chain of setters, paint binds a copy of it to a text, and   *)
(* Display renders the pair as prefix + text + reset suffix.               *)
(*                                                                         *)
(* Rust strings are modelled as sequences of one-character strings, with   *)
(* ESC standing for the control byte 0x1B.  Option<T> is modelled as a     *)
(* sequence of length at most one: None is <<>>, Some(x) is <<x>>.         *)
(***************************************************************************)
EXTENDS Integers, Sequences, FiniteSets, TLC

VARIABLES style, hist, calls, strings, rendered, origin, again

vars == <<style, hist, calls, strings, rendered, origin, again>>

----------------------------------------------------------------------------
(* Values *)

ESC == "ESC"

None == <<>>

Some(x) == <<x>>

StandardColors ==
    {"Black", "Red", "Green", "Yellow", "Blue", "Magenta", "Cyan", "White"}

BrightColors ==
    {"BrightBlack", "BrightRed", "BrightGreen", "BrightYellow",
     "BrightBlue", "BrightMagenta", "BrightCyan", "BrightWhite"}

Color == StandardColors \cup BrightColors

RgbColor_new(r, g, b) == [r |-> r, g |-> g, b |-> b]

(* u8 channel triples handed to fg_rgb / bg_rgb: one-, two- and three-digit
   channel values, among them the triples of the repository's tests. *)
RgbInputs ==
    { RgbColor_new(255, 50, 50), RgbColor_new(20, 20, 50),
      RgbColor_new(0, 7, 100) }

----------------------------------------------------------------------------
(* Color::fg_code / Color::bg_code *)

fg_code(c) ==
    CASE c = "Black" -> 30
      [] c = "Red" -> 31
      [] c = "Green" -> 32
      [] c = "Yellow" -> 33
      [] c = "Blue" -> 34
      [] c = "Magenta" -> 35
      [] c = "Cyan" -> 36
      [] c = "White" -> 37
      [] c = "BrightBlack" -> 90
      [] c = "BrightRed" -> 91
      [] c = "BrightGreen" -> 92
      [] c = "BrightYellow" -> 93
      [] c = "BrightBlue" -> 94
      [] c = "BrightMagenta" -> 95
      [] c = "BrightCyan" -> 96
      [] c = "BrightWhite" -> 97

(* bg_code with one arm mistyped *)
bg_code_typo(c) ==
    CASE c = "Black" -> 40
      [] c = "Red" -> 41
      [] c = "Green" -> 42
      [] c = "Yellow" -> 43
      [] c = "Blue" -> 44
      [] c = "Magenta" -> 45
      [] c = "Cyan" -> 46
      [] c = "White" -> 47
      [] c = "BrightBlack" -> 100
      [] c = "BrightRed" -> 101
      [] c = "BrightGreen" -> 102
      [] c = "BrightYellow" -> 103
      [] c = "BrightBlue" -> 104
      [] c = "BrightMagenta" -> 104
      [] c = "BrightCyan" -> 106
      [] c = "BrightWhite" -> 107

bg_code(c) ==
    CASE c = "Black" -> 40
      [] c = "Red" -> 41
      [] c = "Green" -> 42
      [] c = "Yellow" -> 43
      [] c = "Blue" -> 44
      [] c = "Magenta" -> 45
      [] c = "Cyan" -> 46
      [] c = "White" -> 47
      [] c = "BrightBlack" -> 100
      [] c = "BrightRed" -> 101
      [] c = "BrightGreen" -> 102
      [] c = "BrightYellow" -> 103
      [] c = "BrightBlue" -> 104
      [] c = "BrightMagenta" -> 105
      [] c = "BrightCyan" -> 106
      [] c = "BrightWhite" -> 107

----------------------------------------------------------------------------
(* Style and its builder methods *)

Style_default ==
    [ fg_color |-> None, bg_color |-> None,
      fg_rgb_color |-> None, bg_rgb_color |-> None,
      bold |-> FALSE, italic |-> FALSE, underline |-> FALSE ]

Style_new == Style_default

(* fg without the line that clears the RGB foreground *)
fg_keeps_rgb(s, color) == [s EXCEPT !.fg_color = Some(color)]

fg(s, color) ==
    [s EXCEPT !.fg_color = Some(color), !.fg_rgb_color = None]

(* bg with the clearing line copied from fg unchanged *)
bg_clears_fg_rgb(s, color) ==
    [s EXCEPT !.bg_color = Some(color), !.fg_rgb_color = None]

bg(s, color) ==
    [s EXCEPT !.bg_color = Some(color), !.bg_rgb_color = None]

fg_rgb(s, r, g, b) ==
    [s EXCEPT !.fg_rgb_color = Some(RgbColor_new(r, g, b)),
              !.fg_color = None]

(* bg_rgb that keeps the named background *)
bg_rgb_keeps_named(s, r, g, b) ==
    [s EXCEPT !.bg_rgb_color = Some(RgbColor_new(r, g, b))]

bg_rgb(s, r, g, b) ==
    [s EXCEPT !.bg_rgb_color = Some(RgbColor_new(r, g, b)),
              !.bg_color = None]

bold(s) == [s EXCEPT !.bold = TRUE]

(* italic that rebuilds the flags and drops bold *)
italic_clears_bold(s) == [s EXCEPT !.italic = TRUE, !.bold = FALSE]

italic(s) == [s EXCEPT !.italic = TRUE]

underline(s) == [s EXCEPT !.underline = TRUE]

----------------------------------------------------------------------------
(* Formatting *)

Digit(d) == <<"0", "1", "2", "3", "4", "5", "6", "7", "8", "9">>[d + 1]

RECURSIVE to_string(_)
(* u8::to_string: decimal digits, no sign, no leading zero. *)
to_string(n) ==
    IF n < 10 THEN <<Digit(n)>>
    ELSE to_string(n \div 10) \o <<Digit(n % 10)>>

(* format!("38;2;{};{};{}", rgb.r, rgb.g, rgb.b), lead = "3" or "4". *)
format_rgb(lead, rgb) ==
    <<lead, "8", ";", "2", ";">> \o to_string(rgb.r) \o <<";">>
        \o to_string(rgb.g) \o <<";">> \o to_string(rgb.b)

RECURSIVE join(_, _)
(* codes.join(sep) *)
join(codes, sep) ==
    IF Len(codes) = 0 THEN <<>>
    ELSE IF Len(codes) = 1 THEN codes[1]
    ELSE codes[1] \o sep \o join(Tail(codes), sep)

(* format_prefix pushing the attribute flags before the colours *)
codes_flags_first(s) ==
    (IF s.bold THEN << <<"1">> >> ELSE <<>>)
    \o (IF s.italic THEN << <<"3">> >> ELSE <<>>)
    \o (IF s.underline THEN << <<"4">> >> ELSE <<>>)
    \o (IF s.fg_color # None THEN <<to_string(fg_code(s.fg_color[1]))>> ELSE <<>>)
    \o (IF s.fg_rgb_color # None THEN <<format_rgb("3", s.fg_rgb_color[1])>> ELSE <<>>)
    \o (IF s.bg_color # None THEN <<to_string(bg_code(s.bg_color[1]))>> ELSE <<>>)
    \o (IF s.bg_rgb_color # None THEN <<format_rgb("4", s.bg_rgb_color[1])>> ELSE <<>>)

(* The vector `codes` that format_prefix fills, in push order. *)
codes(s) ==
    (IF s.fg_color # None THEN <<to_string(fg_code(s.fg_color[1]))>> ELSE <<>>)
    \o (IF s.fg_rgb_color # None THEN <<format_rgb("3", s.fg_rgb_color[1])>> ELSE <<>>)
    \o (IF s.bg_color # None THEN <<to_string(bg_code(s.bg_color[1]))>> ELSE <<>>)
    \o (IF s.bg_rgb_color # None THEN <<format_rgb("4", s.bg_rgb_color[1])>> ELSE <<>>)
    \o (IF s.bold THEN << <<"1">> >> ELSE <<>>)
    \o (IF s.italic THEN << <<"3">> >> ELSE <<>>)
    \o (IF s.underline THEN << <<"4">> >> ELSE <<>>)

(* format_prefix without the codes.is_empty() early return *)
format_prefix_no_empty_check(s) ==
    <<ESC, "[">> \o join(codes(s), <<";">>) \o <<"m">>

format_prefix(s) ==
    IF Len(codes(s)) = 0 THEN <<>>
    ELSE <<ESC, "[">> \o join(codes(s), <<";">>) \o <<"m">>

format_suffix == <<ESC, "[", "0", "m">>

(* <ColoredString as Display>::fmt: the string written to the formatter. *)
fmt(cs) ==
    LET prefix == format_prefix(cs.style) IN
    IF Len(prefix) = 0 THEN cs.text
    ELSE prefix \o cs.text \o format_suffix

(* A value of a type T: AsRef<str> is either a &str or a ColoredString. *)
Str(chars) == [tag |-> "str", chars |-> chars]

(* as_ref handing out the rendered string instead of the raw text *)
as_ref_rendered(cs) == fmt(cs)

(* <ColoredString as AsRef<str>>::as_ref *)
as_ref(cs) == cs.text

(* text.as_ref(), dispatched on the type of text. *)
AsRef_str(text) == IF text.tag = "str" THEN text.chars ELSE as_ref(text)

(* Style::paint *)
paint(s, text) ==
    [tag |-> "ColoredString", text |-> AsRef_str(text), style |-> s]

----------------------------------------------------------------------------
(* Free helper functions *)

red(text) == paint(fg(Style_new, "Red"), text)

green(text) == paint(fg(Style_new, "Green"), text)

blue(text) == paint(fg(Style_new, "Blue"), text)

yellow(text) == paint(fg(Style_new, "Yellow"), text)

magenta(text) == paint(fg(Style_new, "Magenta"), text)

cyan(text) == paint(fg(Style_new, "Cyan"), text)

white(text) == paint(fg(Style_new, "White"), text)

black(text) == paint(fg(Style_new, "Black"), text)

rgb(r, g, b, text) == paint(fg_rgb(Style_new, r, g, b), text)

on_rgb(r, g, b, text) == paint(bg_rgb(Style_new, r, g, b), text)

(* impl<T: AsRef<str>> Colorize for T *)
Colorize_red(self) == red(self)

Colorize_green(self) == green(self)

Colorize_blue(self) == blue(self)

Colorize_yellow(self) == yellow(self)

Colorize_magenta(self) == magenta(self)

Colorize_cyan(self) == cyan(self)

Colorize_white(self) == white(self)

Colorize_black(self) == black(self)

Colorize_bold(self) == paint(bold(Style_new), self)

Colorize_italic(self) == paint(italic(Style_new), self)

Colorize_underline(self) == paint(underline(Style_new), self)

Colorize_color(self, color) == paint(fg(Style_new, color), self)

Colorize_bg_color(self, color) == paint(bg(Style_new, color), self)

Colorize_rgb(self, r, g, b) == paint(fg_rgb(Style_new, r, g, b), self)

Colorize_on_rgb(self, r, g, b) == paint(bg_rgb(Style_new, r, g, b), self)

ColorNames ==
    {"red", "green", "blue", "yellow", "magenta", "cyan", "white", "black"}

FlagNames == {"bold", "italic", "underline"}

(* The free function named f, called on text. *)
CallFree(f, text) ==
    CASE f = "red" -> red(text)
      [] f = "green" -> green(text)
      [] f = "blue" -> blue(text)
      [] f = "yellow" -> yellow(text)
      [] f = "magenta" -> magenta(text)
      [] f = "cyan" -> cyan(text)
      [] f = "white" -> white(text)
      [] f = "black" -> black(text)

(* The free function named f with a channel triple, called on text. *)
CallFreeRgb(f, x, text) ==
    CASE f = "rgb" -> rgb(x.r, x.g, x.b, text)
      [] f = "on_rgb" -> on_rgb(x.r, x.g, x.b, text)

(* The argument-free Colorize method named m, called on self. *)
CallMethod(m, self) ==
    CASE m = "red" -> Colorize_red(self)
      [] m = "green" -> Colorize_green(self)
      [] m = "blue" -> Colorize_blue(self)
      [] m = "yellow" -> Colorize_yellow(self)
      [] m = "magenta" -> Colorize_magenta(self)
      [] m = "cyan" -> Colorize_cyan(self)
      [] m = "white" -> Colorize_white(self)
      [] m = "black" -> Colorize_black(self)
      [] m = "bold" -> Colorize_bold(self)
      [] m = "italic" -> Colorize_italic(self)
      [] m = "underline" -> Colorize_underline(self)

(* The Colorize method named m that takes a Color, called on self. *)
CallMethodColor(m, color, self) ==
    CASE m = "color" -> Colorize_color(self, color)
      [] m = "bg_color" -> Colorize_bg_color(self, color)

(* The Colorize method named m that takes a channel triple. *)
CallMethodRgb(m, x, self) ==
    CASE m = "rgb" -> Colorize_rgb(self, x.r, x.g, x.b)
      [] m = "on_rgb" -> Colorize_on_rgb(self, x.r, x.g, x.b)

----------------------------------------------------------------------------
(* Builder calls as data: the receiver-free part of a call. *)

NoOp == [kind |-> "new", color |-> None, rgb |-> None]

OpFg(c) == [kind |-> "fg", color |-> Some(c), rgb |-> None]

OpBg(c) == [kind |-> "bg", color |-> Some(c), rgb |-> None]

OpFgRgb(x) == [kind |-> "fg_rgb", color |-> None, rgb |-> Some(x)]

OpBgRgb(x) == [kind |-> "bg_rgb", color |-> None, rgb |-> Some(x)]

OpFlag(k) == [kind |-> k, color |-> None, rgb |-> None]

(* The method a call record names, applied to s. *)
Apply(op, s) ==
    CASE op.kind = "fg" -> fg(s, op.color[1])
      [] op.kind = "bg" -> bg(s, op.color[1])
      [] op.kind = "fg_rgb" -> fg_rgb(s, op.rgb[1].r, op.rgb[1].g, op.rgb[1].b)
      [] op.kind = "bg_rgb" -> bg_rgb(s, op.rgb[1].r, op.rgb[1].g, op.rgb[1].b)
      [] op.kind = "bold" -> bold(s)
      [] op.kind = "italic" -> italic(s)
      [] op.kind = "underline" -> underline(s)
      [] op.kind = "new" -> Style_new

(* What is recorded of the chain that built `style`: the most recent
   foreground setter, the most recent background setter, the most recent
   call of all, and the kinds of all the calls made. *)
HistNew == [fg |-> NoOp, bg |-> NoOp, last |-> NoOp, kinds |-> {}]

Note(h, op) ==
    [ fg |-> IF op.kind \in {"fg", "fg_rgb"} THEN op ELSE h.fg,
      bg |-> IF op.kind \in {"bg", "bg_rgb"} THEN op ELSE h.bg,
      last |-> op,
      kinds |-> h.kinds \cup {op.kind} ]

----------------------------------------------------------------------------
(* Bounds of the exploration *)

(* Longest builder chain explored from one Style::new(). *)
MaxCalls == 6

(* Longest builder chain explored when ColoredStrings are kept alive. *)
MaxPaintCalls == 2

(* Most ColoredString values alive at once. *)
MaxStrings == 2

(* Colours, triples and texts used while ColoredStrings are kept alive: a
   plain text, and one that already holds a reset sequence (paint does no
   escaping). *)
PaintColors == {"Red"}

PaintRgb == { RgbColor_new(20, 20, 50) }

PaintTexts == { <<"h", "i">>, <<ESC, "[", "0", "m">> }

(* Colours handed to Colorize::color and Colorize::bg_color. *)
SugarColors == {"Green", "BrightBlue"}

----------------------------------------------------------------------------
(* State: `style` is the caller's Style value s, `strings` the ColoredString
   values created so far, rendered[i] the last result of strings[i]
   .to_string() (None before the first), `again` whether some ColoredString
   has been rendered more than once.  hist, calls and origin record the
   calls made: they are read by no operation. *)

Init ==
    /\ style = Style_new
    /\ hist = HistNew
    /\ calls = 0
    /\ strings = <<>>
    /\ rendered = <<>>
    /\ origin = <<>>
    /\ again = FALSE

(* let s = Style::new(): a new chain begins. *)
New ==
    /\ style' = Style_new
    /\ hist' = HistNew
    /\ calls' = 0
    /\ UNCHANGED <<strings, rendered, origin, again>>

(* A builder call on a Style that the ColoredStrings share with s *)
Build_shared(op) ==
    /\ style' = Apply(op, style)
    /\ hist' = Note(hist, op)
    /\ calls' = calls + 1
    /\ strings' = [i \in DOMAIN strings |-> [strings[i] EXCEPT !.style = style']]
    /\ UNCHANGED <<rendered, origin, again>>

(* s = s.<op>(..): the method takes self by value and returns the update. *)
Build(op) ==
    /\ style' = Apply(op, style)
    /\ hist' = Note(hist, op)
    /\ calls' = calls + 1
    /\ UNCHANGED <<strings, rendered, origin, again>>

Fg(c) == Build(OpFg(c))

Bg(c) == Build(OpBg(c))

FgRgb(x) == Build(OpFgRgb(x))

BgRgb(x) == Build(OpBgRgb(x))

Bold == Build(OpFlag("bold"))

Italic == Build(OpFlag("italic"))

Underline == Build(OpFlag("underline"))

(* The record of the call that made a ColoredString. *)
Origin(via, fn, color, x, recv) ==
    [via |-> via, fn |-> fn, color |-> color, rgb |-> x, recv |-> recv]

(* strings.push(s.paint(text)): paint takes &self. *)
Paint(text) ==
    /\ Len(strings) < MaxStrings
    /\ strings' = Append(strings, paint(style, Str(text)))
    /\ rendered' = Append(rendered, None)
    /\ origin' = Append(origin, Origin("paint", "paint", None, None, Str(text)))
    /\ UNCHANGED <<style, hist, calls, again>>

(* A fmt that leaves its output in self.text *)
Render_writes_back(i) ==
    /\ i \in DOMAIN strings
    /\ rendered' = [rendered EXCEPT ![i] = Some(fmt(strings[i]))]
    /\ strings' = [strings EXCEPT ![i].text = fmt(strings[i])]
    /\ again' = (again \/ rendered[i] # None)
    /\ UNCHANGED <<style, hist, calls, origin>>

(* strings[i].to_string(): Display::fmt takes &self. *)
Render(i) ==
    /\ i \in DOMAIN strings
    /\ rendered' = [rendered EXCEPT ![i] = Some(fmt(strings[i]))]
    /\ again' = (again \/ rendered[i] # None)
    /\ UNCHANGED <<style, hist, calls, strings, origin>>

(* What a convenience call can be made on: a &str, or a ColoredString made
   earlier (borrowed: it stays alive). *)
Receivers == {Str(t) : t \in PaintTexts} \cup {strings[i] : i \in DOMAIN strings}

(* strings.push(made), made by the convenience call that `by` records. *)
Push(made, by) ==
    /\ Len(strings) < MaxStrings
    /\ strings' = Append(strings, made)
    /\ rendered' = Append(rendered, None)
    /\ origin' = Append(origin, by)
    /\ UNCHANGED <<style, hist, calls, again>>

(* strings.push(f(v)) for a free function red .. black *)
Free(f, v) == Push(CallFree(f, v), Origin("free", f, None, None, v))

(* strings.push(f(r, g, b, v)) for the free functions rgb, on_rgb *)
FreeRgb(f, x, v) ==
    Push(CallFreeRgb(f, x, v), Origin("free", f, None, Some(x), v))

(* strings.push(v.m()) *)
Method(m, v) == Push(CallMethod(m, v), Origin("method", m, None, None, v))

(* strings.push(v.m(c)) for color, bg_color *)
MethodColor(m, c, v) ==
    Push(CallMethodColor(m, c, v), Origin("method", m, Some(c), None, v))

(* strings.push(v.m(r, g, b)) for the methods rgb, on_rgb *)
MethodRgb(m, x, v) ==
    Push(CallMethodRgb(m, x, v), Origin("method", m, None, Some(x), v))

Next ==
    \/ New
    \/ \E c \in Color : calls < MaxCalls /\ Fg(c)
    \/ \E c \in Color : calls < MaxCalls /\ Bg(c)
    \/ \E x \in RgbInputs : calls < MaxCalls /\ FgRgb(x)
    \/ \E x \in RgbInputs : calls < MaxCalls /\ BgRgb(x)
    \/ calls < MaxCalls /\ Bold
    \/ calls < MaxCalls /\ Italic
    \/ calls < MaxCalls /\ Underline

Spec == Init /\ [][Next]_vars

NextPaint ==
    \/ \E c \in PaintColors : calls < MaxPaintCalls /\ Fg(c)
    \/ \E c \in PaintColors : calls < MaxPaintCalls /\ Bg(c)
    \/ \E x \in PaintRgb : calls < MaxPaintCalls /\ FgRgb(x)
    \/ \E x \in PaintRgb : calls < MaxPaintCalls /\ BgRgb(x)
    \/ calls < MaxPaintCalls /\ Bold
    \/ calls < MaxPaintCalls /\ Italic
    \/ calls < MaxPaintCalls /\ Underline
    \/ \E t \in PaintTexts : Paint(t)
    \/ \E i \in 1..MaxStrings : Render(i)

SpecPaint == Init /\ [][NextPaint]_vars

NextSugar ==
    \/ \E f \in ColorNames, v \in Receivers : Free(f, v)
    \/ \E f \in {"rgb", "on_rgb"}, x \in PaintRgb, v \in Receivers :
          FreeRgb(f, x, v)
    \/ \E m \in ColorNames \cup FlagNames, v \in Receivers : Method(m, v)
    \/ \E m \in {"color", "bg_color"}, c \in SugarColors, v \in Receivers :
          MethodColor(m, c, v)
    \/ \E m \in {"rgb", "on_rgb"}, x \in PaintRgb, v \in Receivers :
          MethodRgb(m, x, v)

SpecSugar == Init /\ [][NextSugar]_vars

----------------------------------------------------------------------------
(* Expected output, written out from the escape-code tables rather than
   computed by the program's own formatting. *)

(* Decimal digits of n, 0 <= n <= 999. *)
DigitsOf(n) ==
    IF n < 10 THEN <<Digit(n)>>
    ELSE IF n < 100 THEN <<Digit(n \div 10), Digit(n % 10)>>
    ELSE <<Digit(n \div 100), Digit((n \div 10) % 10), Digit(n % 10)>>

RgbFragment(lead, x) ==
    <<lead, "8", ";", "2", ";">> \o DigitsOf(x.r) \o <<";">>
        \o DigitsOf(x.g) \o <<";">> \o DigitsOf(x.b)

RECURSIVE WithSemicolons(_)
WithSemicolons(frags) ==
    IF Len(frags) = 0 THEN <<>>
    ELSE frags[1] \o (IF Len(frags) = 1 THEN <<>>
                      ELSE <<";">> \o WithSemicolons(Tail(frags)))

Wrapped(frags) ==
    IF Len(frags) = 0 THEN <<>>
    ELSE <<ESC, "[">> \o WithSemicolons(frags) \o <<"m">>

NonEmpty(frag) == Len(frag) > 0

(* The fragment a recorded colour setter must leave, as a list of 0 or 1. *)
SetterFragment(op) ==
    CASE op.kind = "fg" -> <<DigitsOf(fg_code(op.color[1]))>>
      [] op.kind = "bg" -> <<DigitsOf(bg_code(op.color[1]))>>
      [] op.kind = "fg_rgb" -> <<RgbFragment("3", op.rgb[1])>>
      [] op.kind = "bg_rgb" -> <<RgbFragment("4", op.rgb[1])>>
      [] OTHER -> <<>>

FlagFragments(b, i, u) ==
    (IF b THEN << <<"1">> >> ELSE <<>>)
    \o (IF i THEN << <<"3">> >> ELSE <<>>)
    \o (IF u THEN << <<"4">> >> ELSE <<>>)

----------------------------------------------------------------------------
(* C1: in every Style reachable from Style::new() by builder calls, the
   named and the RGB foreground are never both set, and the named and the
   RGB background are never both set. *)
NamedAndRgbExclusive ==
    /\ ~(style.fg_color # None /\ style.fg_rgb_color # None)
    /\ ~(style.bg_color # None /\ style.bg_rgb_color # None)

(* Both setters of both channels have been called in this chain. *)
NamedAndRgbExclusiveWitness ==
    /\ {"fg", "fg_rgb", "bg", "bg_rgb"} \subseteq hist.kinds
    /\ style.fg_color = Some("Red") /\ style.fg_rgb_color = None
    /\ style.bg_color = None /\ style.bg_rgb_color # None

(* C2: last write wins per colour channel: the fragments of the prefix are
   those of the most recent foreground setter and of the most recent
   background setter (then the flags), and nothing of an overwritten colour
   remains. *)
LastWriteWins ==
    LET expected ==
            SetterFragment(hist.fg) \o SetterFragment(hist.bg)
            \o FlagFragments("bold" \in hist.kinds, "italic" \in hist.kinds,
                             "underline" \in hist.kinds)
    IN  /\ codes(style) = expected
        /\ format_prefix(style) = Wrapped(expected)

(* Named then RGB on the foreground, RGB then named on the background. *)
LastWriteWinsWitness ==
    /\ {"fg", "fg_rgb", "bg", "bg_rgb"} \subseteq hist.kinds
    /\ hist.fg = OpFgRgb(RgbColor_new(255, 50, 50))
    /\ hist.bg = OpBg("Black")
    /\ hist.last.kind = "bg"
    /\ format_prefix(style) =
          <<ESC, "[", "3", "8", ";", "2", ";", "2", "5", "5", ";", "5", "0",
            ";", "5", "0", ";", "4", "0", "m">>

(* C3: format_prefix emits named foreground, RGB foreground, named
   background, RGB background, bold 1, italic 3, underline 4, in that order,
   joined by ';' inside ESC [ .. m, whatever the order of the builder
   calls. *)
FixedFragmentOrder ==
    LET s == style
        slots ==
            << IF s.fg_color # None
                   THEN DigitsOf(fg_code(s.fg_color[1])) ELSE <<>>,
               IF s.fg_rgb_color # None
                   THEN RgbFragment("3", s.fg_rgb_color[1]) ELSE <<>>,
               IF s.bg_color # None
                   THEN DigitsOf(bg_code(s.bg_color[1])) ELSE <<>>,
               IF s.bg_rgb_color # None
                   THEN RgbFragment("4", s.bg_rgb_color[1]) ELSE <<>>,
               IF s.bold THEN <<"1">> ELSE <<>>,
               IF s.italic THEN <<"3">> ELSE <<>>,
               IF s.underline THEN <<"4">> ELSE <<>> >>
    IN  /\ format_prefix(s) = Wrapped(SelectSeq(slots, NonEmpty))
        /\ (hist.fg = OpFg("Green") /\ hist.bg = OpBg("Black")
              /\ hist.kinds \cap {"bold", "italic", "underline"} = {"bold"})
           => format_prefix(s) =
                 <<ESC, "[", "3", "2", ";", "4", "0", ";", "1", "m">>
        /\ (hist.fg = OpFgRgb(RgbColor_new(255, 50, 50))
              /\ hist.bg = OpBgRgb(RgbColor_new(20, 20, 50))
              /\ hist.kinds \cap {"bold", "italic", "underline"} = {"bold"})
           => format_prefix(s) =
                 <<ESC, "[", "3", "8", ";", "2", ";", "2", "5", "5", ";",
                   "5", "0", ";", "5", "0", ";", "4", "8", ";", "2", ";",
                   "2", "0", ";", "2", "0", ";", "5", "0", ";", "1", "m">>

(* bold() and bg(Black) were called before fg(Green), which came last and
   is still emitted first. *)
FixedFragmentOrderWitness ==
    /\ calls = 3
    /\ hist.kinds = {"bold", "bg", "fg"}
    /\ hist.last = OpFg("Green")
    /\ hist.bg = OpBg("Black")
    /\ format_prefix(style) =
          <<ESC, "[", "3", "2", ";", "4", "0", ";", "1", "m">>

(* C5: for each of the 16 Color variants c, Style::new().fg(c) serialises to
   exactly c's foreground code, in 30..37 (standard) or 90..97 (bright);
   Style::new().bg(c) to exactly c's background code, in 40..47 or 100..107;
   the mapping is total and the background code is the foreground code
   plus 10. *)
NamedColorCodes ==
    /\ \A c \in Color :
          /\ fg_code(c) \in (IF c \in StandardColors THEN 30..37 ELSE 90..97)
          /\ bg_code(c) \in (IF c \in StandardColors THEN 40..47 ELSE 100..107)
          /\ bg_code(c) = fg_code(c) + 10
    /\ (hist.kinds = {"fg"}) =>
          format_prefix(style) =
              <<ESC, "[">> \o DigitsOf(fg_code(hist.fg.color[1])) \o <<"m">>
    /\ (hist.kinds = {"bg"}) =>
          format_prefix(style) =
              <<ESC, "[">> \o DigitsOf(bg_code(hist.bg.color[1])) \o <<"m">>

(* Style::new().bg(BrightMagenta) has been built and serialises to 105. *)
NamedColorCodesWitness ==
    /\ calls = 1
    /\ hist.last = OpBg("BrightMagenta")
    /\ format_prefix(style) = <<ESC, "[", "1", "0", "5", "m">>

(* Calls used to test commutation on the current Style. *)
CommuteOps ==
    { OpFg("Red"), OpFgRgb(RgbColor_new(0, 7, 100)), OpBg("BrightCyan"),
      OpBgRgb(RgbColor_new(20, 20, 50)), OpFlag("bold"), OpFlag("italic"),
      OpFlag("underline") }

(* The field group a call writes. *)
Channel(op) ==
    CASE op.kind \in {"fg", "fg_rgb"} -> "foreground"
      [] op.kind \in {"bg", "bg_rgb"} -> "background"
      [] OTHER -> op.kind

(* The chain foreground setter, background setter, bold, italic, underline
   with the given last setters and flags. *)
Canonical(h) ==
    LET s1 == IF h.fg.kind = "new" THEN Style_new ELSE Apply(h.fg, Style_new)
        s2 == IF h.bg.kind = "new" THEN s1 ELSE Apply(h.bg, s1)
        s3 == IF "bold" \in h.kinds THEN bold(s2) ELSE s2
        s4 == IF "italic" \in h.kinds THEN italic(s3) ELSE s3
    IN  IF "underline" \in h.kinds THEN underline(s4) ELSE s4

(* C6: builder calls that write different fields commute, each flag call is
   idempotent, and so a chain yields the same Style and the same prefix as
   any chain with the same last foreground setter, last background setter
   and set of flags. *)
CallOrderIrrelevant ==
    /\ \A a, b \in CommuteOps :
          Channel(a) # Channel(b) =>
              Apply(a, Apply(b, style)) = Apply(b, Apply(a, style))
    /\ \A k \in {"bold", "italic", "underline"} :
          Apply(OpFlag(k), Apply(OpFlag(k), style)) = Apply(OpFlag(k), style)
    /\ style = Canonical(hist)
    /\ format_prefix(style) = format_prefix(Canonical(hist))

(* A chain of six calls that ends with a colour setter and is not in the
   canonical order. *)
CallOrderIrrelevantWitness ==
    /\ calls = 6
    /\ {"fg", "bg_rgb", "bold", "italic", "underline"} \subseteq hist.kinds
    /\ hist.last.kind = "fg"
    /\ style.bold /\ style.italic /\ style.underline
    /\ style.bg_rgb_color # None

(* C9: each builder call changes only its own channel: the foreground
   setters leave the background fields and the flags alone, the background
   setters leave the foreground fields and the flags alone, a flag call sets
   only its flag; so a flag that is true stays true through builder
   calls. *)
BuilderFrame ==
    [][ calls' = calls + 1 =>
          LET op == hist'.last IN
          /\ op.kind \in {"fg", "fg_rgb"} =>
                /\ style'.bg_color = style.bg_color
                /\ style'.bg_rgb_color = style.bg_rgb_color
          /\ op.kind \in {"bg", "bg_rgb"} =>
                /\ style'.fg_color = style.fg_color
                /\ style'.fg_rgb_color = style.fg_rgb_color
          /\ op.kind \in {"fg", "fg_rgb", "bg", "bg_rgb"} =>
                /\ style'.bold = style.bold
                /\ style'.italic = style.italic
                /\ style'.underline = style.underline
          /\ op.kind = "bold" => style' = [style EXCEPT !.bold = TRUE]
          /\ op.kind = "italic" => style' = [style EXCEPT !.italic = TRUE]
          /\ op.kind = "underline" =>
                style' = [style EXCEPT !.underline = TRUE]
          /\ style.bold => style'.bold
          /\ style.italic => style'.italic
          /\ style.underline => style'.underline
      ]_vars

(* All three flags were set and four colour setters called after them. *)
BuilderFrameWitness ==
    /\ calls >= 5
    /\ {"bold", "fg", "bg", "fg_rgb"} \subseteq hist.kinds
    /\ hist.last.kind \in {"bg", "bg_rgb"}
    /\ style.bold
    /\ style.fg_rgb_color # None

----------------------------------------------------------------------------
(* C4: rendering a ColoredString yields exactly the raw text when its Style
   has every field empty or false, and exactly prefix + text + ESC[0m
   otherwise: the reset suffix is written if and only if a non-empty prefix
   was. *)
RenderedExactly ==
    \A i \in DOMAIN rendered :
        rendered[i] # None =>
            LET cs == strings[i]
                out == rendered[i][1]
                plain ==
                    /\ cs.style.fg_color = None
                    /\ cs.style.fg_rgb_color = None
                    /\ cs.style.bg_color = None
                    /\ cs.style.bg_rgb_color = None
                    /\ ~cs.style.bold
                    /\ ~cs.style.italic
                    /\ ~cs.style.underline
                prefix == format_prefix(cs.style)
            IN  IF plain THEN out = cs.text
                ELSE /\ Len(prefix) > 0
                     /\ SubSeq(prefix, 1, 2) = <<ESC, "[">>
                     /\ out = prefix \o cs.text \o <<ESC, "[", "0", "m">>

(* A default Style painted on a text that holds escape bytes renders to that
   text; a styled one renders wrapped. *)
RenderedExactlyWitness ==
    /\ Len(strings) = 2
    /\ strings[1].style = Style_default
    /\ rendered[1] = Some(<<ESC, "[", "0", "m">>)
    /\ rendered[2] =
          Some(<<ESC, "[", "4", "m", "h", "i", ESC, "[", "0", "m">>)

(* C7: rendering is repeatable and pure: every rendering of one
   ColoredString yields the same string, and a rendering changes neither the
   bound text nor the bound Style (nor the caller's Style). *)
RenderRepeatable ==
    [][ /\ \A i \in DOMAIN rendered :
              (rendered[i] # None /\ i \in DOMAIN rendered')
                  => rendered'[i] = rendered[i]
        /\ (Len(strings') = Len(strings) /\ calls' = calls)
              => (strings' = strings /\ style' = style)
      ]_vars

(* A styled ColoredString has been rendered more than once. *)
RenderRepeatableWitness ==
    /\ again
    /\ Len(strings) = 1
    /\ strings[1].style.bold
    /\ rendered[1] =
          Some(<<ESC, "[", "1", "m", "h", "i", ESC, "[", "0", "m">>)

(* C8: paint binds a frozen copy of the Style: no later builder call on s
   and no later paint changes a ColoredString already made, nor what it
   renders to, and paint leaves s unchanged. *)
PaintFreezesStyle ==
    [][ /\ \A i \in DOMAIN strings :
              /\ i \in DOMAIN strings'
              /\ strings'[i] = strings[i]
              /\ fmt(strings'[i]) = fmt(strings[i])
        /\ Len(strings') > Len(strings) =>
              /\ style' = style
              /\ strings'[Len(strings')].style = style
      ]_vars

(* s was painted, changed by two builder calls, painted again, and the
   first ColoredString still renders the Style of its paint. *)
PaintFreezesStyleWitness ==
    /\ Len(strings) = 2
    /\ calls = 2
    /\ strings[1].style = Style_default
    /\ strings[2].style = style
    /\ style.bold /\ style.fg_color = Some("Red")
    /\ rendered[1] = Some(<<"h", "i">>)
    /\ rendered[2] =
          Some(<<ESC, "[", "3", "1", ";", "1", "m", "h", "i", ESC, "[", "0", "m">>)

(* The builder call a convenience function or Colorize method stands for. *)
SugarOp(o) ==
    CASE o.fn = "red" -> OpFg("Red")
      [] o.fn = "green" -> OpFg("Green")
      [] o.fn = "blue" -> OpFg("Blue")
      [] o.fn = "yellow" -> OpFg("Yellow")
      [] o.fn = "magenta" -> OpFg("Magenta")
      [] o.fn = "cyan" -> OpFg("Cyan")
      [] o.fn = "white" -> OpFg("White")
      [] o.fn = "black" -> OpFg("Black")
      [] o.fn = "bold" -> OpFlag("bold")
      [] o.fn = "italic" -> OpFlag("italic")
      [] o.fn = "underline" -> OpFlag("underline")
      [] o.fn = "color" -> OpFg(o.color[1])
      [] o.fn = "bg_color" -> OpBg(o.color[1])
      [] o.fn = "rgb" -> OpFgRgb(o.rgb[1])
      [] o.fn = "on_rgb" -> OpBgRgb(o.rgb[1])

(* The raw text of a receiver. *)
RawText(v) == IF v.tag = "str" THEN v.chars ELSE v.text

(* C10: every convenience function and every Colorize method yields what
   Style::new() with exactly one builder call, painted on the receiver's raw
   text, yields, also when the receiver is a ColoredString, whose own Style
   is then discarded. *)
SugarIsOneBuilderCall ==
    \A i \in DOMAIN strings :
        LET o == origin[i]
            one == Apply(SugarOp(o), Style_new)
            expected ==
                [tag |-> "ColoredString", text |-> RawText(o.recv), style |-> one]
        IN  o.via \in {"free", "method"} =>
                /\ strings[i] = expected
                /\ fmt(strings[i]) = format_prefix(one) \o RawText(o.recv)
                                         \o <<ESC, "[", "0", "m">>

(* "hi".red().bold(): only bold is left. *)
SugarIsOneBuilderCallWitness ==
    /\ Len(strings) = 2
    /\ origin[1] = Origin("method", "red", None, None, Str(<<"h", "i">>))
    /\ origin[2] = Origin("method", "bold", None, None, strings[1])
    /\ fmt(strings[1]) =
          <<ESC, "[", "3", "1", "m", "h", "i", ESC, "[", "0", "m">>
    /\ fmt(strings[2]) =
          <<ESC, "[", "1", "m", "h", "i", ESC, "[", "0", "m">>

====
